---- MODULE Spec2Model ----
(***************************************************************************)
(* A model of the pack indexer of the editor:                              *)
(*   - LightningCache (change detection, per-file processing, persistence) *)
(*   - processJSON's instruction evaluation (onReceiveData)                *)
(*   - PackSpider / File (the dependency graph and its registry)           *)
(*   - CompilerWindow.loadOutputFolders and the CustomCommandsPlugin       *)
(* The parts have their own specifications (SpecCache, SpecJSON,           *)
(* SpecSpider, SpecCompiler), and SpecConcurrent is File.create called by  *)
(* callers that overlap; each one leaves the variables of the other parts  *)
(* alone.                                                                  *)
(***************************************************************************)
EXTENDS Integers, Sequences, FiniteSets, TLC

VARIABLES
    \* ---- the environment of LightningCache
    tree,             \* the source tree: path -> file (lastModified, content) or Absent
    now,              \* the modification clock of the file system
    ignoreFile,       \* 'bridge/.ignore-folders': its lines, or unreadable
    \* ---- LightningCache and its LightningStore
    folderIgnoreList, \* LightningCache.folderIgnoreList
    store,            \* LightningStore: path -> record or NoRecord
    totalFiles,       \* LightningStore.totalFiles
    visitedFiles,     \* LightningStore.visitedFiles
    cachePc,          \* position of start(): "idle" or "walk"
    queue,            \* files iterateDir still has to hand to the callback
    filePaths,        \* start(): const filePaths
    changedFiles,     \* start(): const changedFiles
    anyFileChanged,   \* start(): let anyFileChanged
    saved,            \* whether the pass called saveStore
    lastPass,         \* how the last pass ended: "none", "fast" or "full"
    lastOps,          \* what the last processFile call did (parse, eval, add, visit)
    lastFile,         \* the file of the last processFile call, and what it returned
    sinceScan,        \* what happened to the tree since the last full pass
    passOver,         \* sinceScan as it was when the pass started
    options,          \* service.getOptions() as the last start() found them
    \* ---- processJSON's instruction evaluation
    jsonIn,           \* the instructions and the matched values handed to processJSON
    jsonPc,           \* "ready" or "done"
    collectedData,    \* processJSON: const collectedData
    received,         \* one entry per onReceiveData call: its arguments and readyData
    \* ---- PackSpider and the File registry
    cacheData,        \* lightningStore.get(filePath, fileType).data, per path
    dataEdits,        \* how often the cache data changed
    packSpiderFiles,  \* PackSpider.packSpiderFiles: fileType -> IPackSpiderFile
    files,            \* the File objects ever constructed; a File is its index
    fileStore,        \* fileStore[fileType][filePath]: a File or NoFile
    stack,            \* the File.create calls in progress, the innermost last
    seeds,            \* setup(): the file paths still to create
    spiderPc,         \* "idle", "setup" or "update"
    lastError,        \* whether the last operation threw
    returnedBy,       \* the File the last unforced File.create of a path returned
    anyForced,        \* whether File.create was ever called with forceUpdate
    lastRebuild,      \* the last forced File.create that completed
    directory,        \* the result of toDirectory(), if it was the last query
    categoryDirectory, \* getCategoryDirectory(), if it was the last query: argument, result
    lastCreated,      \* the File the last File.create constructed, if its data still stand
    \* ---- File.create calls in progress at the same time
    createCalls,      \* per task, its File.create calls in progress, the innermost last
    returned,         \* per task, its last outermost File.create call and what it returned
    everForced,       \* whether a task ever called File.create with forceUpdate
    \* ---- the compiler window and the CustomCommandsPlugin
    isUsingFileSystemPolyfill, \* isUsingFileSystemPolyfill.value
    comMojangStatus,  \* app.comMojang.status: hasComMojang, didDenyPermission
    panel,            \* the last loadOutputFolders() call: what it found and returned
    include,          \* the plugin's include: entries [startPath, paths], in key order
    built,            \* whether buildStart() has run
    pipeline          \* the last file through require and transform, and the results

cacheVars == <<tree, now, ignoreFile, folderIgnoreList, store, totalFiles,
               visitedFiles, cachePc, queue, filePaths, changedFiles, anyFileChanged, saved,
               lastPass, lastOps, lastFile, sinceScan, passOver, options>>
jsonVars == <<jsonIn, jsonPc, collectedData, received>>
spiderVars == <<cacheData, dataEdits, packSpiderFiles, files, fileStore, stack,
                seeds, spiderPc, lastError, returnedBy, anyForced, lastRebuild,
                directory, categoryDirectory, lastCreated>>
compilerVars == <<isUsingFileSystemPolyfill, comMojangStatus, panel, include, built,
                  pipeline>>
concurrentVars == <<createCalls, returned, everForced>>
vars == <<cacheVars, jsonVars, spiderVars, concurrentVars, compilerVars>>

\* What the actions of one part leave alone: the variables of the other parts.
notCacheVars == <<jsonVars, spiderVars, concurrentVars, compilerVars>>
notJsonVars == <<cacheVars, spiderVars, concurrentVars, compilerVars>>
notSpiderVars == <<cacheVars, jsonVars, concurrentVars, compilerVars>>
notCompilerVars == <<cacheVars, jsonVars, spiderVars, concurrentVars>>
\* What concurrent File.create calls leave alone: the other parts, and what
\* the model keeps of PackSpider's own operations.
notConcurrentVars == <<cacheVars, jsonVars, compilerVars, cacheData, dataEdits,
                       packSpiderFiles, stack, seeds, spiderPc, lastError, returnedBy,
                       anyForced, lastRebuild, directory, categoryDirectory, lastCreated>>

\* ------------------------------------------------------------------ bounds

\* How many times the environment edits the tree (creates, rewrites, deletes a file).
MaxEdits == 3
\* The longest array a matched JSON value holds.
MaxArrayLen == 3
\* How many times the cache data of a file changes.
MaxDataEdits == 1
\* How many callers of File.create there are that do not wait for one another.
MaxTasks == 2
\* How many File objects are constructed.
MaxNodes == 4
\* How deep File.create calls nest before the model stops following them.
MaxDepth == 4

\* ------------------------------------------------------- sequence helpers

RECURSIVE SeqToSet(_)
SeqToSet(s) == IF s = <<>> THEN {} ELSE {Head(s)} \cup SeqToSet(Tail(s))

Contains(s, x) == \E i \in 1..Len(s) : s[i] = x

\* [...new Set(s)]: the elements of s in the order of their first occurrence.
RECURSIVE UniqueInOrder(_, _)
UniqueInOrder(s, acc) ==
    IF s = <<>> THEN acc
    ELSE UniqueInOrder(Tail(s), IF Contains(acc, Head(s)) THEN acc ELSE Append(acc, Head(s)))

NoDuplicates(s) == \A i, j \in 1..Len(s) : s[i] = s[j] => i = j

EmptyMap == [k \in {} |-> <<>>]

\* An optional value of the code (undefined or a value).
Undefined == [defined |-> FALSE]
Some(v) == [defined |-> TRUE, value |-> v]

\* ------------------------------------------ processJSON: the instructions

\* The strings that occur in documents.
Values == {"x", "y", "z"}

\* A value walkObject hands to the callback: an array, an object (its keys, in
\* the order Object.keys lists them), null, or a scalar.
Arr(items) == [kind |-> "array", items |-> items]
Obj(keys) == [kind |-> "object", keys |-> keys]
Null == [kind |-> "null"]
Scalar(v) == [kind |-> "scalar", value |-> v]

\* readyData before the filter: Array.isArray(data) ? data :
\* typeof data === 'object' ? Object.keys(data ?? {}) : [data]
Normalize(data) ==
    IF data.kind = "array" THEN data.items
    ELSE IF data.kind = "object" THEN data.keys
    ELSE IF data.kind = "null" THEN <<>>
    ELSE <<data.value>>

\* run(mapFunc, { value }): the registered '@map' scripts of the model.
\*   "yToX"  renames y to x;  "dropZ"  rejects z (yields undefined).
MapFuncs == {"yToX", "dropZ"}
RunMap(mapFunc, value) ==
    IF mapFunc = "yToX" THEN Some(IF value = "y" THEN "x" ELSE value)
    ELSE IF value = "z" THEN Undefined ELSE Some(value)

\* if (filter) readyData = readyData.filter((d) => !filter.includes(d))
ApplyFilter(readyData, filter) ==
    IF filter.defined
    THEN SelectSeq(readyData, LAMBDA d : ~Contains(filter.value, d))
    ELSE readyData

\* readyData.map((value) => run(mapFunc, { value })).filter((value) => value !== undefined)
RECURSIVE MapDefined(_, _)
MapDefined(readyData, mapFunc) ==
    IF readyData = <<>> THEN <<>>
    ELSE LET r == RunMap(mapFunc, Head(readyData))
         IN  (IF r.defined THEN <<r.value>> ELSE <<>>) \o MapDefined(Tail(readyData), mapFunc)

ApplyMap(readyData, mapFunc) ==
    IF mapFunc.defined THEN MapDefined(readyData, mapFunc.value) ELSE readyData

\* A variant of ReadyData that maps before it filters.
ReadyData_MapFirst(filter, mapFunc, data) ==
    ApplyFilter(ApplyMap(Normalize(data), mapFunc), filter)

\* readyData of one onReceiveData call: normalised, filtered, then mapped.
ReadyData(filter, mapFunc, data) ==
    ApplyMap(ApplyFilter(Normalize(data), filter), mapFunc)

\* The last statement of onReceiveData: the first value list of a key is stored
\* as it is, a later one is merged through a Set.
Collect(collected, key, readyData) ==
    IF key \notin DOMAIN collected
    THEN collected @@ (key :> readyData)
    ELSE [collected EXCEPT ![key] = UniqueInOrder(collected[key] \o readyData, <<>>)]

\* onReceiveData(key, filter, mapFunc)(data), on the pair (collectedData, the
\* calls made so far).
OnReceiveData(st, key, filter, mapFunc, data) ==
    LET readyData == ReadyData(filter, mapFunc, data)
    IN  [c |-> Collect(st.c, key, readyData),
         r |-> Append(st.r, [key |-> key, filter |-> filter, map |-> mapFunc,
                             data |-> data, readyData |-> readyData])]

\* walkObject(path, data, callback): the values of the document at path, in
\* document order. A document is given by the values each path matches.
WalkObject(path, doc) == IF path \in DOMAIN doc THEN doc[path] ELSE <<>>

RECURSIVE ReceiveAll(_, _, _)
ReceiveAll(st, instruction, matches) ==
    IF matches = <<>> THEN st
    ELSE ReceiveAll(OnReceiveData(st, instruction.key.value, instruction.filter,
                                  instruction.map, Head(matches)),
                    instruction, Tail(matches))

\* for (const path of paths) walkObject(path, data, onReceiveData(...));
\* a single path (paths not an array) is the one-element list.
RECURSIVE WalkPaths(_, _, _, _)
WalkPaths(st, instruction, paths, doc) ==
    IF paths = <<>> THEN st
    ELSE WalkPaths(ReceiveAll(st, instruction, WalkObject(Head(paths), doc)),
                   instruction, Tail(paths), doc)

\* for (const instruction of instructions): an instruction without a key that
\* does not start with '@' is skipped.
RECURSIVE RunInstructions(_, _, _)
RunInstructions(st, instructions, doc) ==
    IF instructions = <<>> THEN st
    ELSE LET i == Head(instructions)
         IN  RunInstructions(
                 IF i.key.defined THEN WalkPaths(st, i, i.paths, doc) ELSE st,
                 Tail(instructions), doc)

\* The 'data' of the record processJSON adds for a parsed document: undefined
\* without instructions (or with a script), else the collected data when it has
\* a key.
JsonRun(instructions, doc) ==
    RunInstructions([c |-> EmptyMap, r |-> <<>>], instructions, doc)

JsonData(instructions, doc) ==
    IF instructions.isScript \/ instructions.list = <<>> THEN Undefined
    ELSE LET c == JsonRun(instructions.list, doc).c
         IN  IF DOMAIN c # {} THEN Some(c) ELSE Undefined

\* ------------------------------------------------ the inputs of SpecJSON

Instruction(key, paths, filter, mapFunc) ==
    [key |-> key, paths |-> paths, filter |-> filter, map |-> mapFunc]

InstructionLists == {
    <<>>,
    << Instruction(Some("k"), <<"a">>, Undefined, Undefined) >>,
    << Instruction(Some("k"), <<"a", "b">>, Undefined, Undefined) >>,
    << Instruction(Some("k"), <<"a">>, Some(<<"x">>), Undefined) >>,
    << Instruction(Some("k"), <<"a">>, Some(<<"x">>), Some("yToX")) >>,
    << Instruction(Some("k"), <<"a">>, Undefined, Some("dropZ")) >>,
    << Instruction(Some("k"), <<"a">>, Undefined, Undefined),
       Instruction(Some("k"), <<"b">>, Some(<<"y">>), Undefined) >>,
    << Instruction(Some("k"), <<"a">>, Undefined, Undefined),
       Instruction(Some("j"), <<"b">>, Undefined, Undefined) >>,
    << Instruction(Undefined, <<"a">>, Some(<<"x">>), Undefined),
       Instruction(Some("k"), <<"b">>, Undefined, Undefined) >> }

RECURSIVE SeqsUpTo(_, _)
SeqsUpTo(S, n) ==
    IF n = 0 THEN {<<>>}
    ELSE LET shorter == SeqsUpTo(S, n - 1)
         IN  shorter \cup {Append(s, x) : s \in shorter, x \in S}

RawValues ==
    {Arr(s) : s \in SeqsUpTo(Values, MaxArrayLen)}
    \cup {Obj(<<>>), Obj(<<"x", "y">>), Null}
    \cup {Scalar(v) : v \in Values}

SmallRawValues ==
    {Arr(<<>>), Arr(<<"x", "x">>), Arr(<<"y", "x">>), Scalar("x"), Obj(<<"z", "x">>), Null}

\* Documents: one match for each of the paths a and b, or two scalar matches
\* for a (as 'entries[].id' gives).
Docs ==
    {("a" :> <<r1>>) @@ ("b" :> <<r2>>) : r1 \in RawValues, r2 \in SmallRawValues}
    \cup {("a" :> <<Scalar(u), Scalar(v)>>) : u, v \in Values}

JsonInit ==
    /\ jsonIn \in [instructions : InstructionLists, doc : Docs]
    /\ jsonPc = "ready"
    /\ collectedData = EmptyMap
    /\ received = <<>>

\* processJSON from 'const collectedData = {}' to the end of the instruction loop.
EvaluateInstructions ==
    /\ jsonPc = "ready"
    /\ LET st == JsonRun(jsonIn.instructions, jsonIn.doc)
       IN  /\ collectedData' = st.c
           /\ received' = st.r
    /\ jsonPc' = "done"
    /\ UNCHANGED jsonIn
    /\ UNCHANGED notJsonVars

JsonNext == EvaluateInstructions


\* --------------------------------------------- LightningCache: the files

\* The files of the model, one for each way processFile treats a file, in the
\* order the directory handles list them.
CachePathOrder ==
    << "BP/.hid", "BP/builds/q.json", "BP/e.json", "BP/f.mcfunction", "BP/i.png",
       "BP/n.txt", "BP/t.lang", "RP/m.json", "builds/o.json" >>
CachePaths == SeqToSet(CachePathOrder)

\* The directory handles of the source tree and their entries, files and
\* directories, in the order entries() lists them.
FileEntry(name) == [kind |-> "file", name |-> name, entries |-> <<>>]
DirectoryEntry(name, entries) == [kind |-> "directory", name |-> name, entries |-> entries]
BaseDirectory ==
    << DirectoryEntry("BP", << FileEntry(".hid"),
                               DirectoryEntry("builds", << FileEntry("q.json") >>),
                               FileEntry("e.json"), FileEntry("f.mcfunction"),
                               FileEntry("i.png"), FileEntry("n.txt"),
                               FileEntry("t.lang") >>),
       DirectoryEntry("RP", << FileEntry("m.json") >>),
       DirectoryEntry("builds", << FileEntry("o.json") >>) >>

\* currentFullPath of the directories iterateDir enters on the way to a file.
DirsAbove(p) ==
    IF p = "RP/m.json" THEN {"RP"}
    ELSE IF p = "builds/o.json" THEN {"builds"}
    ELSE IF p = "BP/builds/q.json" THEN {"BP", "BP/builds"}
    ELSE {"BP"}

\* fileName[0] === '.'
StartsWithDot(p) == p = "BP/.hid"

\* extname(filePath)
ExtName(p) ==
    CASE p \in {"BP/e.json", "RP/m.json", "builds/o.json", "BP/builds/q.json"} -> ".json"
      [] p = "BP/f.mcfunction" -> ".mcfunction"
      [] p = "BP/t.lang" -> ".lang"
      [] p = "BP/n.txt" -> ".txt"
      [] p = "BP/i.png" -> ".png"
      [] OTHER -> ""

knownTextFiles == {".js", ".ts", ".lang", ".mcfunction", ".txt", ".molang"}

\* FileType.getLightningCache(filePath): the instructions registered for the
\* file's type, a list or the source of a script.
ScriptOf(name) == [isScript |-> TRUE, script |-> name, list |-> <<>>]
ListOf(list) == [isScript |-> FALSE, script |-> "", list |-> list]
GetLightningCache(p) ==
    CASE p = "BP/e.json" ->
            ListOf(<< Instruction(Some("identifier"), <<"a">>, Undefined, Undefined),
                      Instruction(Some("ref"), <<"b">>, Some(<<"x">>), Undefined) >>)
      [] p = "BP/f.mcfunction" -> ScriptOf("commands")
      [] p = "BP/t.lang" -> ScriptOf("broken")
      [] OTHER -> ListOf(<<>>)

\* runScript(instructions): whether the script yields a function.
RunScript(script) == [isFunction |-> script = "commands"]

\* cacheFunction(fileContent) of the script "commands".
CacheFunction(content) ==
    IF content = 0 THEN EmptyMap ELSE ("commands" :> <<"x", "y">>)

\* json5.parse(fileContent): content 0 is malformed.
Json5Parse(content) ==
    IF content = 0 THEN Undefined
    ELSE Some(("a" :> <<Scalar("z")>>) @@ ("b" :> <<Arr(<<"x", "y", "x">>)>>))

\* The contents a file of the model can have.
ContentsOf(p) == IF p \in {"BP/e.json", "BP/f.mcfunction"} THEN {0, 1} ELSE {1}

Absent == [exists |-> FALSE]
FileOf(lastModified, content) ==
    [exists |-> TRUE, lastModified |-> lastModified, content |-> content]

\* 'bridge/.ignore-folders': unreadable, or its text.
IgnoreFiles == {Undefined, Some(<<"RP", "">>)}

\* ------------------------------------------------------- LightningStore

NoRecord == [exists |-> FALSE]
Record(lastModified, data) ==
    [exists |-> TRUE, lastModified |-> lastModified, data |-> data, visited |-> TRUE]

\* getLastModified(filePath, fileType): undefined without a record.
GetLastModified(s, p) == IF s[p].exists THEN Some(s[p].lastModified) ELSE Undefined

\* add(filePath, record, fileType): upsert of the whole record.
StoreAdd(s, p, lastModified, data) == [s EXCEPT ![p] = Record(lastModified, data)]

\* setVisited(filePath, true, fileType)
SetVisited(s, p) ==
    IF s[p].exists THEN [s EXCEPT ![p].visited = TRUE] ELSE s

\* setup(): the known records, none of them visited yet.
StoreSetup(s) ==
    [p \in DOMAIN s |-> IF s[p].exists THEN [s[p] EXCEPT !.visited = FALSE] ELSE s[p]]

TotalFiles(s) == Cardinality({p \in DOMAIN s : s[p].exists})
VisitedFiles(s) == Cardinality({p \in DOMAIN s : s[p].exists /\ s[p].visited})

\* allFiles()
AllFiles(s) == SelectSeq(CachePathOrder, LAMBDA p : s[p].exists)

\* saveStore(): the records visited in this pass are written; a record whose
\* file was not seen is dropped.
SaveStore(s) ==
    [p \in DOMAIN s |-> IF s[p].exists /\ s[p].visited THEN s[p] ELSE NoRecord]

\* ---------------------------------------- LightningCache: the operations

\* loadIgnoreFolders()
LoadIgnoreFolders(file) ==
    IF file.defined THEN SeqToSet(file.value) \cup {"bridge", "builds"}
    ELSE {"bridge", "builds"}

\* fileName[0] === '.'
NameStartsWithDot(fileName) == fileName = ".hid"

\* fullPath.length === 0 ? fileName : `${fullPath}/${fileName}`
CurrentFullPath(fullPath, fileName) ==
    IF fullPath = "" THEN fileName ELSE fullPath \o "/" \o fileName

\* A variant of IsIgnored that looks the directory up by its name.
IsIgnored_ByName(ignore, fullPath, fileName) == fileName \in ignore

\* this.folderIgnoreList.has(currentFullPath)
IsIgnored(ignore, fullPath, fileName) == CurrentFullPath(fullPath, fileName) \in ignore

\* iterateDir(baseDir, callback, fullPath) over the entries of baseDir: the
\* files handed to the callback, in order.
RECURSIVE IterateEntries(_, _, _, _)
IterateEntries(t, ignore, entries, fullPath) ==
    IF entries = <<>> THEN <<>>
    ELSE LET entry == Head(entries)
             currentFullPath == CurrentFullPath(fullPath, entry.name)
             here == IF entry.kind = "directory"
                     THEN IF IsIgnored(ignore, fullPath, entry.name) THEN <<>>
                          ELSE IterateEntries(t, ignore, entry.entries, currentFullPath)
                     ELSE IF t[currentFullPath].exists /\ ~NameStartsWithDot(entry.name)
                          THEN <<currentFullPath>>
                          ELSE <<>>
         IN  here \o IterateEntries(t, ignore, Tail(entries), fullPath)

\* iterateDir(baseDirectory, callback)
IterateDir(t, ignore) == IterateEntries(t, ignore, BaseDirectory, "")

\* A variant of ProcessJSON without the catch around json5.parse: the error
\* leaves processJSON before any add.
ProcessJSON_NoCatch(s, p, file) ==
    LET parsed == Json5Parse(file.content)
        instructions == GetLightningCache(p)
    IN  IF ~parsed.defined
        THEN [s |-> s, ops |-> {"parse", "throw"}]
        ELSE [s |-> StoreAdd(s, p, file.lastModified, JsonData(instructions, parsed.value)),
              ops |-> {"parse", "add"}
                      \cup (IF instructions.isScript \/ instructions.list = <<>>
                            THEN {} ELSE {"eval"})]

\* processJSON(filePath, fileType, file) on the store: [s, ops].
ProcessJSON(s, p, file) ==
    LET parsed == Json5Parse(file.content)
        instructions == GetLightningCache(p)
    IN  IF ~parsed.defined
        THEN [s |-> StoreAdd(s, p, file.lastModified, Undefined), ops |-> {"parse", "add"}]
        ELSE [s |-> StoreAdd(s, p, file.lastModified, JsonData(instructions, parsed.value)),
              ops |-> {"parse", "add"}
                      \cup (IF instructions.isScript \/ instructions.list = <<>>
                            THEN {} ELSE {"eval"})]

\* processText(filePath, fileType, file) on the store: [s, ops].
ProcessText(s, p, file) ==
    LET instructions == GetLightningCache(p)
    IN  IF instructions.isScript
        THEN IF ~RunScript(instructions.script).isFunction
             THEN [s |-> s, ops |-> {}]
             ELSE LET textData == CacheFunction(file.content)
                      s1 == StoreAdd(s, p, file.lastModified,
                                     IF DOMAIN textData # {} THEN Some(textData)
                                     ELSE Undefined)
                  IN  \* no return after the first add: the second add follows
                      [s |-> StoreAdd(s1, p, file.lastModified, Undefined),
                       ops |-> {"eval", "add"}]
        ELSE [s |-> StoreAdd(s, p, file.lastModified, Undefined), ops |-> {"add"}]

\* A variant of processFile without the lastModified check: every file is
\* reprocessed.
ProcessFile_NoSkip(s, p, file) ==
    LET r == IF ExtName(p) = ".json" THEN ProcessJSON(s, p, file)
             ELSE IF ExtName(p) \in knownTextFiles THEN ProcessText(s, p, file)
             ELSE [s |-> StoreAdd(s, p, file.lastModified, Undefined), ops |-> {"add"}]
    IN  [s |-> r.s, changed |-> TRUE, ops |-> r.ops]

\* processFile(filePath, fileHandle) on the store: [s, changed, ops].
ProcessFile(s, p, file) ==
    IF Some(file.lastModified) = GetLastModified(s, p)
    THEN [s |-> SetVisited(s, p), changed |-> FALSE, ops |-> {"visit"}]
    ELSE LET r == IF ExtName(p) = ".json" THEN ProcessJSON(s, p, file)
                  ELSE IF ExtName(p) \in knownTextFiles THEN ProcessText(s, p, file)
                  ELSE [s |-> StoreAdd(s, p, file.lastModified, Undefined),
                        ops |-> {"add"}]
         IN  [s |-> r.s, changed |-> TRUE, ops |-> r.ops]


\* ------------------------------------------ LightningCache: the actions

CacheInit ==
    /\ tree = [p \in CachePaths |-> Absent]
    /\ now = 0
    /\ ignoreFile \in IgnoreFiles
    /\ folderIgnoreList = {}
    /\ store = [p \in CachePaths |-> NoRecord]
    /\ totalFiles = 0
    /\ visitedFiles = 0
    /\ cachePc = "idle"
    /\ queue = <<>>
    /\ filePaths = <<>>
    /\ changedFiles = <<>>
    /\ anyFileChanged = FALSE
    /\ saved = FALSE
    /\ lastPass = "none"
    /\ lastOps = {}
    /\ lastFile = Undefined
    /\ sinceScan = "none"
    /\ passOver = "none"
    /\ options = [noFullLightningCacheRefresh |-> FALSE]

\* The environment writes a file (new, or over the old one) between two passes.
WriteFile(p, content) ==
    /\ cachePc = "idle"
    /\ now < MaxEdits
    /\ now' = now + 1
    /\ tree' = [tree EXCEPT ![p] = FileOf(now', content)]
    /\ sinceScan' = IF sinceScan = "none" THEN "none" ELSE "other"
    /\ UNCHANGED <<ignoreFile, folderIgnoreList, store, totalFiles, visitedFiles,
                   cachePc, queue,
                   filePaths, changedFiles, anyFileChanged, saved, lastPass,
                   lastOps, lastFile, passOver, options>>
    /\ UNCHANGED notCacheVars

\* The environment deletes a file between two passes.
DeleteFile(p) ==
    /\ cachePc = "idle"
    /\ now < MaxEdits
    /\ tree[p].exists
    /\ now' = now + 1
    /\ tree' = [tree EXCEPT ![p] = Absent]
    /\ sinceScan' =
          IF sinceScan = "none" THEN "none"
          ELSE IF sinceScan = "same" /\ Contains(IterateDir(tree, folderIgnoreList), p)
               THEN "deleted"
               ELSE "other"
    /\ UNCHANGED <<ignoreFile, folderIgnoreList, store, totalFiles, visitedFiles,
                   cachePc, queue,
                   filePaths, changedFiles, anyFileChanged, saved, lastPass,
                   lastOps, lastFile, passOver, options>>
    /\ UNCHANGED notCacheVars

\* A variant of FastPath that does not look at the length of allFiles().
FastPath_NoLengthCheck(noFullLightningCacheRefresh, s) == noFullLightningCacheRefresh

\* Whether start() returns allFiles() without a walk.
FastPath(noFullLightningCacheRefresh, s) ==
    noFullLightningCacheRefresh /\ Len(AllFiles(s)) > 0

\* start() up to the walk: setup(), loadIgnoreFolders(), the fast path.
Start(noFullLightningCacheRefresh) ==
    /\ cachePc = "idle"
    /\ store' = StoreSetup(store)
    /\ totalFiles' = TotalFiles(store)
    /\ visitedFiles' = VisitedFiles(store')
    /\ folderIgnoreList' = IF folderIgnoreList = {} THEN LoadIgnoreFolders(ignoreFile)
                           ELSE folderIgnoreList
    /\ saved' = FALSE
    /\ anyFileChanged' = FALSE
    /\ changedFiles' = <<>>
    /\ lastOps' = {}
    /\ lastFile' = Undefined
    /\ passOver' = sinceScan
    /\ options' = [noFullLightningCacheRefresh |-> noFullLightningCacheRefresh]
    /\ IF FastPath(noFullLightningCacheRefresh, store')
       THEN /\ filePaths' = AllFiles(store')
            /\ queue' = <<>>
            /\ cachePc' = "idle"
            /\ lastPass' = "fast"
       ELSE /\ filePaths' = <<>>
            /\ queue' = IterateDir(tree, folderIgnoreList')
            /\ cachePc' = "walk"
            /\ lastPass' = lastPass
    /\ UNCHANGED <<tree, now, ignoreFile, sinceScan>>
    /\ UNCHANGED notCacheVars

\* The callback start() hands to iterateDir, for the next file of the walk.
VisitFile ==
    /\ cachePc = "walk"
    /\ queue # <<>>
    /\ LET filePath == Head(queue)
           r == ProcessFile(store, filePath, tree[filePath])
       IN  /\ store' = r.s
           /\ visitedFiles' = VisitedFiles(r.s)
           /\ anyFileChanged' = (anyFileChanged \/ r.changed)
           /\ changedFiles' = IF r.changed THEN Append(changedFiles, filePath)
                              ELSE changedFiles
           /\ filePaths' = Append(filePaths, filePath)
           /\ lastOps' = r.ops
           /\ lastFile' = Some([path |-> filePath, changed |-> r.changed])
    /\ queue' = Tail(queue)
    /\ UNCHANGED <<tree, now, ignoreFile, folderIgnoreList, totalFiles, cachePc,
                   saved, lastPass, sinceScan, passOver, options>>
    /\ UNCHANGED notCacheVars

\* Whether start() calls saveStore after the walk.
MustSave(changed, visited, total) == changed \/ visited # total

\* start() after the walk: saveStore() if needed, and the return.
Finish ==
    /\ cachePc = "walk"
    /\ queue = <<>>
    /\ saved' = MustSave(anyFileChanged, visitedFiles, totalFiles)
    /\ store' = IF saved' THEN SaveStore(store) ELSE store
    /\ cachePc' = "idle"
    /\ lastPass' = "full"
    /\ sinceScan' = "same"
    /\ UNCHANGED <<tree, now, ignoreFile, folderIgnoreList, totalFiles,
                   visitedFiles, queue, filePaths, changedFiles, anyFileChanged, lastOps, lastFile,
                   passOver, options>>
    /\ UNCHANGED notCacheVars

CacheNext ==
    \/ \E p \in CachePaths : \E content \in ContentsOf(p) : WriteFile(p, content)
    \/ \E p \in CachePaths : DeleteFile(p)
    \/ \E noFullLightningCacheRefresh \in BOOLEAN : Start(noFullLightningCacheRefresh)
    \/ VisitFile
    \/ Finish

\* ------------------------------------------------- PackSpider: the files

SpiderPathOrder == << "BP/a.json", "BP/b.json", "BP/s.json" >>
SpiderPaths == SeqToSet(SpiderPathOrder)

\* FileType.getId(filePath)
FileTypeId(p) == IF p = "BP/s.json" THEN "unknown" ELSE "entity"

\* filePath.split('/').shift()
PathStart(p) == "BP"

\* `${pathStart}/${filePath}`
JoinPath(pathStart, relative) ==
    CASE relative = "a.json" -> "BP/a.json"
      [] relative = "b.json" -> "BP/b.json"
      [] OTHER -> "BP/s.json"

\* FileType.getPackSpiderData(): entities include the files their cache key
\* 'include' lists, connect to the files whose 'identifier' is one of their
\* 'ref' values, and share BP/s.json.
PackSpiderData ==
    ("entity" :> [includeFiles |-> <<"include">>,
                  connect |-> << [find |-> <<"entity">>, where |-> "identifier",
                                  matches |-> "ref"] >>,
                  sharedFiles |-> <<"BP/s.json">>])

\* packSpider.packSpiderFiles[fileType] ?? {}
EmptySpiderFile == [includeFiles |-> <<>>, connect |-> <<>>, sharedFiles |-> <<>>]
PackSpiderFile(psf, fileType) ==
    IF fileType \in DOMAIN psf THEN psf[fileType] ELSE EmptySpiderFile

\* The cache data a file of the model can have.
EntityData(id, includes, ref) ==
    ("identifier" :> <<id>>) @@ ("include" :> includes) @@ ("ref" :> ref)
IdOf(p) == IF p = "BP/a.json" THEN "ida" ELSE IF p = "BP/b.json" THEN "idb" ELSE "ids"
DataOf(p) ==
    IF p = "BP/s.json" THEN {("identifier" :> <<"ids">>)}
    ELSE {EntityData(IdOf(p), i, <<>>) : i \in {<<>>, <<"a.json">>, <<"b.json">>}}
         \cup {EntityData(IdOf(p), <<>>, r) : r \in {<<"ida">>, <<"idb">>}}

\* cacheData[key] ?? []
CacheValues(data, key) == IF key \in DOMAIN data THEN data[key] ELSE <<>>

\* lightningStore.findMultiple(find, where, matchesOneOf): the paths whose
\* 'where' data holds one of the accepted values.
FindMultiple(cd, find, where, matchesOneOf) ==
    SelectSeq(SpiderPathOrder,
              LAMBDA q : SeqToSet(CacheValues(cd[q], where)) \cap SeqToSet(matchesOneOf) # {})

\* ------------------------------------------------------ File: the objects

NoFile == 0

\* A variant of SetAddAll that collects into an array, not a Set.
SetAddAll_Array(set, items) == set \o items

\* Set.add of several items, in order.
SetAddAll(set, items) == UniqueInOrder(items, set)

RECURSIVE AddParentTo(_, _, _)
AddParentTo(h, children, parent) ==
    IF children = <<>> THEN h
    ELSE AddParentTo([h EXCEPT ![Head(children)].parents = @ \cup {parent}],
                     Tail(children), parent)

\* A variant of NewFile that also puts the new File in the place of the Files
\* of its path in the connectedFiles of its parents.
NewFile_Relinked(h, filePath, connectedFiles, parents, identifier) ==
    LET this == Len(h) + 1
        node == [filePath |-> filePath,
                 parents |-> parents,
                 connectedFiles |-> SetAddAll(<<>>, connectedFiles),
                 identifier |-> identifier]
        base == AddParentTo(Append(h, node), connectedFiles, this)
        Relink(children) ==
            [i \in 1..Len(children) |->
                IF base[children[i]].filePath = filePath THEN this ELSE children[i]]
    IN  [f \in 1..Len(base) |->
            IF f \in parents
            THEN [base[f] EXCEPT !.connectedFiles = Relink(base[f].connectedFiles)]
            ELSE base[f]]

\* new File(filePath, connectedFiles, parents): the heap with the new File,
\* whose index is Len(h) + 1.
NewFile(h, filePath, connectedFiles, parents, identifier) ==
    LET this == Len(h) + 1
        node == [filePath |-> filePath,
                 parents |-> parents,
                 connectedFiles |-> SetAddAll(<<>>, connectedFiles),
                 identifier |-> identifier]
    IN  AddParentTo(Append(h, node), connectedFiles, this)

\* storedFile.connectedFiles.forEach(file => file.removeParent(storedFile))
RECURSIVE RemoveParentFrom(_, _, _)
RemoveParentFrom(h, children, parent) ==
    IF children = <<>> THEN h
    ELSE RemoveParentFrom([h EXCEPT ![Head(children)].parents = @ \ {parent}],
                          Tail(children), parent)

\* A variant of Detach that leaves the parents of the connected Files alone.
Detach_None(h, storedFile) == h

Detach(h, storedFile) == RemoveParentFrom(h, h[storedFile].connectedFiles, storedFile)

\* The paths File.create creates a File for, in order: includeFiles, connect,
\* sharedFiles.
RECURSIVE IncludePaths(_, _, _)
IncludePaths(keys, data, pathStart) ==
    IF keys = <<>> THEN <<>>
    ELSE LET values == CacheValues(data, Head(keys))
         IN  [i \in 1..Len(values) |-> JoinPath(pathStart, values[i])]
             \o IncludePaths(Tail(keys), data, pathStart)

RECURSIVE ConnectPaths(_, _, _)
ConnectPaths(rules, data, cd) ==
    IF rules = <<>> THEN <<>>
    ELSE LET rule == Head(rules)
         IN  FindMultiple(cd, rule.find, rule.where, CacheValues(data, rule.matches))
             \o ConnectPaths(Tail(rules), data, cd)

\* A variant of ChildPaths that resolves the shared files first.
ChildPaths_SharedFirst(filePath, psf, cd) ==
    LET packSpiderFile == PackSpiderFile(psf, FileTypeId(filePath))
    IN  packSpiderFile.sharedFiles
        \o IncludePaths(packSpiderFile.includeFiles, cd[filePath], PathStart(filePath))
        \o ConnectPaths(packSpiderFile.connect, cd[filePath], cd)

ChildPaths(filePath, psf, cd) ==
    LET packSpiderFile == PackSpiderFile(psf, FileTypeId(filePath))
    IN  IncludePaths(packSpiderFile.includeFiles, cd[filePath], PathStart(filePath))
        \o ConnectPaths(packSpiderFile.connect, cd[filePath], cd)
        \o packSpiderFile.sharedFiles

\* cacheData.identifier?.[0] ?? 'unknown'
IdentifierOf(data) ==
    IF CacheValues(data, "identifier") # <<>> THEN data["identifier"][1] ELSE "unknown"

\* get deepConnectedFiles(). fuel bounds the nesting of the getter: it runs
\* out only on a chain of connectedFiles longer than the number of Files, that
\* is on a cycle, where the getter does not return.
RECURSIVE DeepConnectedFiles(_, _, _)
RECURSIVE DeepFold(_, _, _, _)
DeepFold(h, children, fuel, acc) ==
    IF children = <<>> THEN acc
    ELSE LET file == Head(children)
             deep == DeepConnectedFiles(h, file, fuel - 1)
         IN  DeepFold(h, Tail(children), fuel,
                      [ok |-> acc.ok /\ deep.ok,
                       files |-> SetAddAll(SetAddAll(acc.files, <<file>>), deep.files)])

DeepConnectedFiles(h, this, fuel) ==
    IF fuel = 0 THEN [ok |-> FALSE, files |-> <<>>]
    ELSE DeepFold(h, h[this].connectedFiles, fuel, [ok |-> TRUE, files |-> <<>>])

\* toDirectory(): whether it returns, the Files it lists and their paths.
ToDirectoryOf(h, this) ==
    LET deep == DeepConnectedFiles(h, this, Len(h) + 1)
        deepFiles == SetAddAll(deep.files, <<this>>)
    IN  [node |-> this, ok |-> deep.ok, deepFiles |-> deepFiles,
         dirFiles |-> [i \in 1..Len(deepFiles) |-> h[deepFiles[i]].filePath]]

\* The file types getCategoryDirectory is asked for; no file is of type "item".
FileTypes == {"entity", "unknown", "item"}

\* A variant of IsFeatureFolder that looks at the connected files.
IsFeatureFolder_NoChildren(h, this) == Len(h[this].connectedFiles) = 0

\* get isFeatureFolder()
IsFeatureFolder(h, this) == Cardinality(h[this].parents) = 0

\* getCategoryDirectory(fileType): a folder for each File of fileStore[fileType]
\* that is a feature folder.
CategoryDirectoryOf(h, fs, fileType) ==
    LET registered == SelectSeq(SpiderPathOrder,
                                LAMBDA p : FileTypeId(p) = fileType /\ fs[p] # NoFile)
        featured == SelectSeq(registered, LAMBDA p : IsFeatureFolder(h, fs[p]))
    IN  [i \in 1..Len(featured) |->
            [kind |-> "directory",
             displayName |-> h[fs[featured[i]]].identifier,
             name |-> h[fs[featured[i]]].filePath,
             path |-> <<fileType, h[fs[featured[i]]].filePath>>]]

\* ------------------------------------------------ PackSpider: the actions

SeedLists ==
    { <<"BP/a.json">>, <<"BP/b.json", "BP/a.json">>,
      <<"BP/a.json", "BP/b.json", "BP/s.json">>, <<"BP/s.json", "BP/a.json", "BP/a.json">> }

SpiderInit ==
    /\ cacheData \in {cd \in [SpiderPaths -> UNION {DataOf(p) : p \in SpiderPaths}] :
                         \A p \in SpiderPaths : cd[p] \in DataOf(p)}
    /\ dataEdits = 0
    /\ packSpiderFiles = EmptyMap
    /\ files = <<>>
    /\ fileStore = [p \in SpiderPaths |-> NoFile]
    /\ stack = <<>>
    /\ seeds = <<>>
    /\ spiderPc = "idle"
    /\ lastError = FALSE
    /\ returnedBy = [p \in SpiderPaths |-> NoFile]
    /\ anyForced = FALSE
    /\ lastRebuild = Undefined
    /\ directory = Undefined
    /\ categoryDirectory = Undefined
    /\ lastCreated = Undefined

Unregistered == {p \in SpiderPaths : fileStore[p] = NoFile}

\* The lightning cache data of a file changes (the file was edited and indexed).
ChangeData(p, data) ==
    /\ spiderPc = "idle"
    /\ dataEdits < MaxDataEdits
    /\ data # cacheData[p]
    /\ cacheData' = [cacheData EXCEPT ![p] = data]
    /\ dataEdits' = dataEdits + 1
    /\ directory' = Undefined
    /\ categoryDirectory' = Undefined
    /\ lastCreated' = Undefined
    /\ UNCHANGED <<packSpiderFiles, files, fileStore, stack, seeds, spiderPc,
                   lastError, returnedBy, anyForced, lastRebuild>>
    /\ UNCHANGED notSpiderVars

\* A frame of File.create: its arguments, storedFile, the paths still to
\* create and the Files created so far.
Frame(filePath, forceUpdate, storedFile, todo) ==
    [filePath |-> filePath, forceUpdate |-> forceUpdate, storedFile |-> storedFile,
     todo |-> todo, connectedFiles |-> <<>>,
     parentsAtCall |-> IF storedFile = NoFile THEN {} ELSE files[storedFile].parents]

\* setup(filePaths) up to its loop.
Setup(filePathList) ==
    /\ spiderPc = "idle"
    /\ Len(files) + Cardinality(Unregistered) <= MaxNodes
    /\ packSpiderFiles' = PackSpiderData
    /\ seeds' = filePathList
    /\ spiderPc' = "setup"
    /\ lastError' = FALSE
    /\ lastRebuild' = Undefined
    /\ directory' = Undefined
    /\ categoryDirectory' = Undefined
    /\ lastCreated' = Undefined
    /\ UNCHANGED <<cacheData, dataEdits, files, fileStore, stack, returnedBy, anyForced>>
    /\ UNCHANGED notSpiderVars

\* updateFile(filePath): File.create(filePath, this, true) up to its first
\* nested call.
UpdateFile(filePath) ==
    /\ spiderPc = "idle"
    /\ Len(files) + Cardinality(Unregistered) + 1 <= MaxNodes
    /\ LET storedFile == fileStore[filePath]
       IN  /\ files' = IF storedFile # NoFile THEN Detach(files, storedFile) ELSE files
           /\ stack' = << Frame(filePath, TRUE, storedFile,
                                ChildPaths(filePath, packSpiderFiles, cacheData)) >>
    /\ spiderPc' = "update"
    /\ anyForced' = TRUE
    /\ lastError' = FALSE
    /\ lastRebuild' = Undefined
    /\ directory' = Undefined
    /\ categoryDirectory' = Undefined
    /\ lastCreated' = Undefined
    /\ UNCHANGED <<cacheData, dataEdits, packSpiderFiles, fileStore, seeds, returnedBy>>
    /\ UNCHANGED notSpiderVars

\* The unforced File.create call that is made next, if any: for the next path
\* of the innermost call in progress, or for the next seed of setup.
InnerCallPending == stack # <<>> /\ stack[Len(stack)].todo # <<>>
SeedCallPending == stack = <<>> /\ spiderPc = "setup" /\ seeds # <<>>
CallPending == InnerCallPending \/ SeedCallPending
PendingPath == IF stack # <<>> THEN Head(stack[Len(stack)].todo) ELSE Head(seeds)

\* The caller of an unforced File.create gets its File.
Deliver(st, file) ==
    IF st # <<>>
    THEN [st EXCEPT ![Len(st)].todo = Tail(@),
                    ![Len(st)].connectedFiles = Append(@, file)]
    ELSE st

\* A variant of CreateCached without the registry lookup's early return: a new
\* File replaces the registered one.
CreateCached_Rebuild ==
    /\ CallPending
    /\ fileStore[PendingPath] # NoFile
    /\ files' = NewFile(files, PendingPath, <<>>, {}, "unknown")
    /\ fileStore' = [fileStore EXCEPT ![PendingPath] = Len(files) + 1]
    /\ stack' = Deliver(stack, fileStore'[PendingPath])
    /\ returnedBy' = [returnedBy EXCEPT ![PendingPath] = fileStore'[PendingPath]]
    /\ IF stack = <<>>
       THEN /\ seeds' = Tail(seeds)
            /\ spiderPc' = IF seeds' = <<>> THEN "idle" ELSE spiderPc
       ELSE UNCHANGED <<seeds, spiderPc>>
    /\ UNCHANGED <<cacheData, dataEdits, packSpiderFiles, lastError, anyForced,
                   lastRebuild, directory, categoryDirectory,
                   lastCreated>>
    /\ UNCHANGED notSpiderVars

\* File.create(filePath, packSpider) of a registered path: `return storedFile`.
CreateCached ==
    /\ CallPending
    /\ fileStore[PendingPath] # NoFile
    /\ stack' = Deliver(stack, fileStore[PendingPath])
    /\ returnedBy' = [returnedBy EXCEPT ![PendingPath] = fileStore[PendingPath]]
    /\ IF stack = <<>>
       THEN /\ seeds' = Tail(seeds)
            /\ spiderPc' = IF seeds' = <<>> THEN "idle" ELSE spiderPc
       ELSE UNCHANGED <<seeds, spiderPc>>
    /\ UNCHANGED <<cacheData, dataEdits, packSpiderFiles, files, fileStore,
                   lastError, anyForced, lastRebuild, directory, categoryDirectory,
                   lastCreated>>
    /\ UNCHANGED notSpiderVars

\* File.create(filePath, packSpider) of an unregistered path, up to its first
\* nested call.
CreateEnter ==
    /\ CallPending
    /\ fileStore[PendingPath] = NoFile
    /\ Len(stack) < MaxDepth
    /\ stack' = Append(stack, Frame(PendingPath, FALSE, NoFile,
                                    ChildPaths(PendingPath, packSpiderFiles, cacheData)))
    /\ UNCHANGED <<cacheData, dataEdits, packSpiderFiles, files, fileStore, seeds,
                   spiderPc, lastError, returnedBy, anyForced, lastRebuild, directory,
                   categoryDirectory, lastCreated>>
    /\ UNCHANGED notSpiderVars

ConstructPending == stack # <<>> /\ stack[Len(stack)].todo = <<>>

\* The end of File.create: new File(...), setIdentifier, the registration and
\* the return to the caller.
CreateConstruct ==
    /\ ConstructPending
    /\ LET frame == stack[Len(stack)]
           rest == SubSeq(stack, 1, Len(stack) - 1)
           file == Len(files) + 1
       IN  /\ ~(frame.forceUpdate /\ frame.storedFile = NoFile)
           /\ files' = NewFile(files, frame.filePath, frame.connectedFiles,
                               IF frame.forceUpdate THEN files[frame.storedFile].parents
                               ELSE {},
                               IdentifierOf(cacheData[frame.filePath]))
           /\ fileStore' = [fileStore EXCEPT ![frame.filePath] = file]
           /\ stack' = Deliver(rest, file)
           /\ returnedBy' = IF frame.forceUpdate THEN returnedBy
                            ELSE [returnedBy EXCEPT ![frame.filePath] = file]
           /\ lastRebuild' =
                 IF frame.forceUpdate
                 THEN Some([old |-> frame.storedFile, new |-> file,
                            parentsAtCall |-> frame.parentsAtCall])
                 ELSE lastRebuild
           /\ IF rest = <<>> /\ spiderPc = "setup"
              THEN /\ seeds' = Tail(seeds)
                   /\ spiderPc' = IF seeds' = <<>> THEN "idle" ELSE spiderPc
              ELSE /\ seeds' = seeds
                   /\ spiderPc' = IF rest = <<>> THEN "idle" ELSE spiderPc
           /\ lastCreated' = Some(file)
    /\ UNCHANGED <<cacheData, dataEdits, packSpiderFiles, lastError, anyForced, directory,
                   categoryDirectory>>
    /\ UNCHANGED notSpiderVars

\* The end of a forced File.create of an unregistered path: the spread of
\* storedFile?.parents, which is undefined, throws a TypeError.
CreateThrow ==
    /\ ConstructPending
    /\ LET frame == stack[Len(stack)]
       IN  frame.forceUpdate /\ frame.storedFile = NoFile
    /\ stack' = <<>>
    /\ spiderPc' = "idle"
    /\ lastError' = TRUE
    /\ UNCHANGED <<cacheData, dataEdits, packSpiderFiles, files, fileStore, seeds,
                   returnedBy, anyForced, lastRebuild, directory, categoryDirectory,
                   lastCreated>>
    /\ UNCHANGED notSpiderVars

\* toDirectory() of a File.
ToDirectory(this) ==
    /\ spiderPc = "idle"
    /\ directory' = Some(ToDirectoryOf(files, this))
    /\ categoryDirectory' = Undefined
    /\ UNCHANGED <<cacheData, dataEdits, packSpiderFiles, files, fileStore, stack,
                   seeds, spiderPc, lastError, returnedBy, anyForced, lastRebuild,
                   lastCreated>>
    /\ UNCHANGED notSpiderVars

\* getCategoryDirectory(fileType)
GetCategoryDirectory(fileType) ==
    /\ spiderPc = "idle"
    /\ categoryDirectory' =
          Some([fileType |-> fileType,
                folders |-> CategoryDirectoryOf(files, fileStore, fileType)])
    /\ directory' = Undefined
    /\ UNCHANGED <<cacheData, dataEdits, packSpiderFiles, files, fileStore, stack,
                   seeds, spiderPc, lastError, returnedBy, anyForced, lastRebuild,
                   lastCreated>>
    /\ UNCHANGED notSpiderVars

SpiderNext ==
    \/ \E p \in SpiderPaths : \E data \in DataOf(p) : ChangeData(p, data)
    \/ \E filePathList \in SeedLists : Setup(filePathList)
    \/ \E p \in SpiderPaths : UpdateFile(p)
    \/ CreateCached
    \/ CreateEnter
    \/ CreateConstruct
    \/ CreateThrow
    \/ \E this \in 1..Len(files) : ToDirectory(this)
    \/ \E fileType \in FileTypes : GetCategoryDirectory(fileType)


\* ------------------------------------- File.create: calls that interleave

\* The callers of File.create that do not wait for one another; each of them
\* makes one call.
Tasks == 1..MaxTasks

\* A File.create call at its first suspension point, await FileType.getId.
CallFrame(filePath, forceUpdate) ==
    [filePath |-> filePath, forceUpdate |-> forceUpdate, pc |-> "getId",
     storedFile |-> NoFile, todo |-> <<>>, connectedFiles |-> <<>>]

ReturnedFile(filePath, forceUpdate, file) ==
    Some([filePath |-> filePath, forceUpdate |-> forceUpdate, thrown |-> FALSE,
          file |-> file])
ThrownError(filePath, forceUpdate) ==
    Some([filePath |-> filePath, forceUpdate |-> forceUpdate, thrown |-> TRUE,
          file |-> NoFile])

\* setup has loaded the pack spider data (lines 25-28) and no File is built
\* yet; BP/b.json links the shared file only.
ConcurrentInit ==
    /\ cacheData \in {cd \in [SpiderPaths -> UNION {DataOf(p) : p \in SpiderPaths}] :
                         /\ \A p \in SpiderPaths : cd[p] \in DataOf(p)
                         /\ cd["BP/b.json"] = EntityData("idb", <<>>, <<>>)}
    /\ packSpiderFiles = PackSpiderData
    /\ files = <<>>
    /\ fileStore = [p \in SpiderPaths |-> NoFile]
    /\ dataEdits = 0
    /\ stack = <<>>
    /\ seeds = <<>>
    /\ spiderPc = "idle"
    /\ lastError = FALSE
    /\ returnedBy = [p \in SpiderPaths |-> NoFile]
    /\ anyForced = FALSE
    /\ lastRebuild = Undefined
    /\ directory = Undefined
    /\ categoryDirectory = Undefined
    /\ lastCreated = Undefined
    /\ createCalls = [t \in Tasks |-> <<>>]
    /\ returned = [t \in Tasks |-> Undefined]
    /\ everForced = FALSE

\* A caller starts File.create(filePath, packSpider, forceUpdate): setup for
\* a seed, updateFile for a changed file.
StartCreate(t, filePath, forceUpdate) ==
    /\ createCalls[t] = <<>>
    /\ ~returned[t].defined
    /\ createCalls' = [createCalls EXCEPT ![t] = <<CallFrame(filePath, forceUpdate)>>]
    /\ everForced' = (everForced \/ forceUpdate)
    /\ UNCHANGED <<files, fileStore, returned>>
    /\ UNCHANGED notConcurrentVars

\* The caller of the innermost call gets its File: the call above it, or the task.
Return(t, file) ==
    LET frame == createCalls[t][Len(createCalls[t])]
        rest == SubSeq(createCalls[t], 1, Len(createCalls[t]) - 1)
    IN  /\ createCalls' = [createCalls EXCEPT ![t] = Deliver(rest, file)]
        /\ returned' = IF rest = <<>>
                       THEN [returned EXCEPT
                                ![t] = ReturnedFile(frame.filePath, frame.forceUpdate, file)]
                       ELSE returned

\* File.create from the registry lookup to the next suspension point: the
\* early return, or the detaching and the paths to create.
LookUp(t) ==
    /\ createCalls[t] # <<>>
    /\ LET frame == createCalls[t][Len(createCalls[t])]
           storedFile == fileStore[frame.filePath]
       IN  /\ frame.pc = "getId"
           /\ IF storedFile # NoFile /\ ~frame.forceUpdate
              THEN /\ Return(t, storedFile)
                   /\ files' = files
              ELSE /\ files' = IF storedFile # NoFile THEN Detach(files, storedFile)
                               ELSE files
                   /\ createCalls' = [createCalls EXCEPT ![t][Len(createCalls[t])] =
                                   [frame EXCEPT
                                       !.pc = "create",
                                       !.storedFile = storedFile,
                                       !.todo = ChildPaths(frame.filePath,
                                                           packSpiderFiles, cacheData)]]
                   /\ returned' = returned
    /\ UNCHANGED <<fileStore, everForced>>
    /\ UNCHANGED notConcurrentVars

\* The nested File.create(filePath, packSpider) for the next path to link.
NestCreate(t) ==
    /\ createCalls[t] # <<>>
    /\ Len(createCalls[t]) < MaxDepth
    /\ LET frame == createCalls[t][Len(createCalls[t])]
       IN  /\ frame.pc = "create"
           /\ frame.todo # <<>>
           /\ createCalls' = [createCalls EXCEPT
                                 ![t] = Append(@, CallFrame(Head(frame.todo), FALSE))]
    /\ UNCHANGED <<files, fileStore, returned, everForced>>
    /\ UNCHANGED notConcurrentVars

\* The end of File.create: new File(...), the registration, the return; or the
\* TypeError of a forced call that found no storedFile.
FinishCreate(t) ==
    /\ createCalls[t] # <<>>
    /\ LET frame == createCalls[t][Len(createCalls[t])]
           file == Len(files) + 1
       IN  /\ frame.pc = "create"
           /\ frame.todo = <<>>
           /\ IF frame.forceUpdate /\ frame.storedFile = NoFile
              THEN /\ createCalls' = [createCalls EXCEPT ![t] = <<>>]
                   /\ returned' = [returned EXCEPT
                                      ![t] = ThrownError(frame.filePath, frame.forceUpdate)]
                   /\ UNCHANGED <<files, fileStore>>
              ELSE /\ files' = NewFile(files, frame.filePath, frame.connectedFiles,
                                       IF frame.forceUpdate
                                       THEN files[frame.storedFile].parents ELSE {},
                                       IdentifierOf(cacheData[frame.filePath]))
                   /\ fileStore' = [fileStore EXCEPT ![frame.filePath] = file]
                   /\ Return(t, file)
    /\ UNCHANGED everForced
    /\ UNCHANGED notConcurrentVars

ConcurrentNext ==
    \/ \E t \in Tasks : \E filePath \in SpiderPaths : \E forceUpdate \in BOOLEAN :
          StartCreate(t, filePath, forceUpdate)
    \/ \E t \in Tasks : LookUp(t)
    \/ \E t \in Tasks : NestCreate(t)
    \/ \E t \in Tasks : FinishCreate(t)


\* ------------------------------------------ CompilerWindow: output folders

PanelConfig(text, type) == [text |-> text, type |-> type, isDismissible |-> FALSE]
Returned(config) == [thrown |-> FALSE, config |-> config]
Thrown(message) == [thrown |-> TRUE, config |-> message]

\* A variant of LoadOutputFoldersOf that asks for a missing com.mojang folder
\* before it asks for a denied permission.
LoadOutputFoldersOf_NotSetupFirst(polyfill, status) ==
    IF polyfill THEN Returned(PanelConfig("comMojang.status.notAvailable", "error"))
    ELSE IF ~status.hasComMojang
    THEN Returned(PanelConfig("comMojang.status.notSetup", "error"))
    ELSE IF status.hasComMojang /\ ~status.didDenyPermission
    THEN Returned(PanelConfig("comMojang.status.sucess", "success"))
    ELSE IF ~status.hasComMojang /\ status.didDenyPermission
    THEN Returned(PanelConfig("comMojang.status.deniedPermission", "warning"))
    ELSE Thrown("Invalid com.mojang status")

\* loadOutputFolders(): the InfoPanel it returns, or the Error it throws.
LoadOutputFoldersOf(polyfill, status) ==
    IF polyfill THEN Returned(PanelConfig("comMojang.status.notAvailable", "error"))
    ELSE IF ~status.hasComMojang /\ status.didDenyPermission
    THEN Returned(PanelConfig("comMojang.status.deniedPermission", "warning"))
    ELSE IF status.hasComMojang /\ ~status.didDenyPermission
    THEN Returned(PanelConfig("comMojang.status.sucess", "success"))
    ELSE IF ~status.hasComMojang
    THEN Returned(PanelConfig("comMojang.status.notSetup", "error"))
    ELSE Thrown("Invalid com.mojang status")

ComMojangStatuses == [hasComMojang : BOOLEAN, didDenyPermission : BOOLEAN]

\* ------------------------------------------------- CustomCommandsPlugin

\* The file paths of the model, as their segments.
PluginPaths ==
    { <<"BP", "functions", "f.mcfunction">>, <<"BP", "functions", "n.json">>,
      <<"BP", "entities", "e.json">>, <<"BP", "items", "i.json">>,
      <<"BP", "commands", "c.js">>, <<"RP", "functions", "r.mcfunction">> }

\* filePath.startsWith(startPath), startPath being the segments before its last '/'.
StartsWith(filePath, startPath) ==
    /\ Len(startPath) < Len(filePath)
    /\ SubSeq(filePath, 1, Len(startPath)) = startPath

\* filePath.endsWith('.mcfunction')
EndsWithMcfunction(filePath) ==
    filePath[Len(filePath)] \in {"f.mcfunction", "r.mcfunction"}

\* isCommand(filePath)
IsCommand(filePath) == StartsWith(filePath, <<"BP", "commands">>)

\* isMcfunction(filePath)
IsMcfunction(filePath) ==
    StartsWith(filePath, <<"BP", "functions">>) /\ EndsWithMcfunction(filePath)

\* Object.entries(include).find(([startPath]) => filePath.startsWith(startPath))?.[1]
RECURSIVE LoadCommandsFor(_, _)
LoadCommandsFor(inc, filePath) ==
    IF inc = <<>> THEN Undefined
    ELSE IF StartsWith(filePath, Head(inc).startPath) THEN Some(Head(inc).paths)
    ELSE LoadCommandsFor(Tail(inc), filePath)

IncludeEntry(startPath, paths) == [startPath |-> startPath, paths |-> paths]

\* data/packages/minecraftBedrock/location/validCommand.json
ValidCommand == << IncludeEntry(<<"BP", "entities">>, <<"events/run">>) >>

\* The include option a project can come with.
IncludeOptions ==
    { <<>>,
      << IncludeEntry(<<"BP", "items">>, <<>>) >>,
      << IncludeEntry(<<"BP", "items">>, <<"use/run", "hit/run">>) >>,
      << IncludeEntry(<<"BP", "entities">>, <<>>) >>,
      << IncludeEntry(<<"BP">>, <<>>), IncludeEntry(<<"BP", "functions">>, <<"run">>) >> }

\* Object.assign(target, source): the keys of target keep their place and take
\* the value source has for them, the other keys of source follow.
ObjectAssign(target, source) ==
    LET keys(o) == {o[i].startPath : i \in 1..Len(o)}
        value(o, k) == (CHOOSE i \in 1..Len(o) : o[i].startPath = k)
        merged == [i \in 1..Len(target) |->
                      IF target[i].startPath \in keys(source)
                      THEN source[value(source, target[i].startPath)]
                      ELSE target[i]]
    IN  merged \o SelectSeq(source, LAMBDA e : e.startPath \notin keys(target))

CommandGlobs == <<"BP/commands/**/*.js", "BP/commands/*.js">>

\* A variant of Require that leaves the function files out.
Require_IncludeOnly(inc, filePath) ==
    IF LoadCommandsFor(inc, filePath).defined THEN Some(CommandGlobs) ELSE Undefined

\* require(filePath): an array, empty or not, is truthy.
Require(inc, filePath) ==
    IF LoadCommandsFor(inc, filePath).defined \/ IsMcfunction(filePath)
    THEN Some(CommandGlobs)
    ELSE Undefined

\* The file contents of the model: the document paths at which a JSON file
\* holds commands (the statements of a function file play no part).
DocumentPaths == {"events/run", "use/run", "hit/run", "run"}
PluginContents == {{}, {"events/run"}, {"use/run"}, {"run"}}

\* transform(filePath, fileContent, dependencies): which branch ran and the
\* document paths whose commands went through transformCommands.
Transform(inc, filePath, fileContent) ==
    LET includePaths == LoadCommandsFor(inc, filePath)
    IN  IF includePaths.defined /\ Len(includePaths.value) > 0
        THEN [branch |-> "include",
              transformed |-> SeqToSet(includePaths.value) \cap fileContent]
        ELSE IF IsMcfunction(filePath)
        THEN [branch |-> "mcfunction", transformed |-> {"statements"}]
        ELSE [branch |-> "none", transformed |-> {}]

\* ------------------------------------------------- compiler: the actions

CompilerInit ==
    /\ isUsingFileSystemPolyfill \in BOOLEAN
    /\ comMojangStatus = [hasComMojang |-> FALSE, didDenyPermission |-> FALSE]
    /\ panel = Undefined
    /\ include \in IncludeOptions
    /\ built = FALSE
    /\ pipeline = Undefined

\* app.comMojang comes to another status (a folder is chosen, a permission
\* request is answered).
SetComMojangStatus(status) ==
    /\ status # comMojangStatus
    /\ comMojangStatus' = status
    /\ UNCHANGED <<isUsingFileSystemPolyfill, panel, include, built, pipeline>>
    /\ UNCHANGED notCompilerVars

\* loadOutputFolders()
LoadOutputFolders ==
    /\ panel' = Some([polyfill |-> isUsingFileSystemPolyfill,
                      status |-> comMojangStatus,
                      result |-> LoadOutputFoldersOf(isUsingFileSystemPolyfill,
                                                     comMojangStatus)])
    /\ UNCHANGED <<isUsingFileSystemPolyfill, comMojangStatus, include, built, pipeline>>
    /\ UNCHANGED notCompilerVars

\* buildStart()
BuildStart ==
    /\ include' = ObjectAssign(ValidCommand, include)
    /\ built' = TRUE
    /\ pipeline' = Undefined
    /\ UNCHANGED <<isUsingFileSystemPolyfill, comMojangStatus, panel>>
    /\ UNCHANGED notCompilerVars

\* The orchestrator takes a file through require and transform.
RunPipeline(filePath, fileContent) ==
    /\ built
    /\ ~IsCommand(filePath)
    /\ pipeline' = Some([filePath |-> filePath, fileContent |-> fileContent,
                         required |-> Require(include, filePath),
                         transform |-> Transform(include, filePath, fileContent)])
    /\ UNCHANGED <<isUsingFileSystemPolyfill, comMojangStatus, panel, include, built>>
    /\ UNCHANGED notCompilerVars

CompilerNext ==
    \/ \E status \in ComMojangStatuses : SetComMojangStatus(status)
    \/ LoadOutputFolders
    \/ BuildStart
    \/ \E filePath \in PluginPaths : \E fileContent \in PluginContents :
          RunPipeline(filePath, fileContent)


\* ----------------------------------------------------- the specifications

JsonIdle ==
    /\ jsonIn = [instructions |-> <<>>, doc |-> EmptyMap]
    /\ jsonPc = "ready"
    /\ collectedData = EmptyMap
    /\ received = <<>>

CacheIdle ==
    /\ CacheInit
    /\ ignoreFile = Undefined

SpiderIdle ==
    /\ SpiderInit
    /\ cacheData = [p \in SpiderPaths |->
                       IF p = "BP/s.json" THEN ("identifier" :> <<"ids">>)
                       ELSE EntityData(IdOf(p), <<>>, <<>>)]

CompilerIdle ==
    /\ CompilerInit
    /\ isUsingFileSystemPolyfill = FALSE
    /\ include = <<>>

ConcurrentIdle ==
    /\ createCalls = [t \in Tasks |-> <<>>]
    /\ returned = [t \in Tasks |-> Undefined]
    /\ everForced = FALSE

\* LightningCache and its store, over a changing source tree.
InitCache == CacheInit /\ JsonIdle /\ SpiderIdle /\ ConcurrentIdle /\ CompilerIdle
SpecCache ==
    /\ InitCache
    /\ [][CacheNext]_vars

\* processJSON's instruction evaluation, over every input of JsonInit.
InitJSON == JsonInit /\ CacheIdle /\ SpiderIdle /\ ConcurrentIdle /\ CompilerIdle
SpecJSON ==
    /\ InitJSON
    /\ [][JsonNext]_vars


\* PackSpider and the File registry, over changing cache data.
InitSpider == SpiderInit /\ CacheIdle /\ JsonIdle /\ ConcurrentIdle /\ CompilerIdle
SpecSpider ==
    /\ InitSpider
    /\ [][SpiderNext]_vars

\* The compiler window and the CustomCommandsPlugin.
InitCompiler == CompilerInit /\ CacheIdle /\ JsonIdle /\ SpiderIdle /\ ConcurrentIdle

\* File.create calls of callers that do not wait for one another.
InitConcurrent == ConcurrentInit /\ CacheIdle /\ JsonIdle /\ CompilerIdle
SpecConcurrent ==
    /\ InitConcurrent
    /\ [][ConcurrentNext]_vars
SpecCompiler ==
    /\ InitCompiler
    /\ [][CompilerNext]_vars

\* ------------------------------------------------- LightningCache: claims

\* The last start() was a full pass and has returned.
FullPassDone == cachePc = "idle" /\ lastPass = "full"

\* C1: idempotence of start(): a full pass over a tree that did not change
\* since the previous full pass returns no changed file and does not call
\* saveStore.
C1_Idempotent ==
    (FullPassDone /\ passOver = "same") => (changedFiles = <<>> /\ ~saved)

\* C2: processFile on a file whose stored lastModified equals its current
\* timestamp returns false, marks the record visited and leaves lastModified
\* and data as they were: nothing is parsed, evaluated or added.
C2_UnchangedFileSkipped ==
    [][ (cachePc = "walk" /\ queue # <<>>
         /\ GetLastModified(store, Head(queue)) = Some(tree[Head(queue)].lastModified))
        => LET f == Head(queue)
           IN  /\ lastFile' = Some([path |-> f, changed |-> FALSE])
               /\ changedFiles' = changedFiles
               /\ store'[f].visited
               /\ store'[f].lastModified = store[f].lastModified
               /\ store'[f].data = store[f].data
               /\ \A p \in CachePaths \ {f} : store'[p] = store[p]
               /\ lastOps' \cap {"parse", "eval", "add"} = {} ]_vars

\* C2's case: an unchanged file that has data was skipped in a second pass.
C2_Witness ==
    /\ lastFile = Some([path |-> "BP/e.json", changed |-> FALSE])
    /\ store["BP/e.json"].exists
    /\ store["BP/e.json"].data.defined
    /\ lastOps = {"visit"}

\* C3: a full pass persists the store if and only if a file was reported
\* changed or the visited count differs from the total count; a pass whose only
\* difference from the previous one is a deleted file persists the store, a
\* pass over an unchanged tree does not.
C3_PersistRule ==
    FullPassDone =>
        /\ saved <=> (changedFiles # <<>> \/ visitedFiles # totalFiles)
        /\ passOver = "deleted" => saved
        /\ passOver = "same" => ~saved

\* C4: a changed plain-text file whose registered script returns a non-empty
\* mapping has, after processFile, a record with that mapping as data and the
\* file's timestamp as lastModified.
C4_TextDataStored ==
    \A p \in CachePaths :
        (/\ cachePc = "walk"
         /\ lastFile = Some([path |-> p, changed |-> TRUE])
         /\ ExtName(p) \in knownTextFiles
         /\ GetLightningCache(p).isScript
         /\ RunScript(GetLightningCache(p).script).isFunction
         /\ DOMAIN CacheFunction(tree[p].content) # {})
        => /\ store[p].exists
           /\ store[p].lastModified = tree[p].lastModified
           /\ store[p].data = Some(CacheFunction(tree[p].content))


\* ------------------------------------------------------ processJSON: claims

\* The values the calls for one key produced, in call order.
RECURSIVE ProducedFor(_, _)
ProducedFor(key, calls) ==
    IF calls = <<>> THEN <<>>
    ELSE (IF Head(calls).key = key THEN Head(calls).readyData ELSE <<>>)
         \o ProducedFor(key, Tail(calls))

\* C9: every value list of the collected data is duplicate-free and is the
\* union, in first-seen order, of the values produced for its key.
C9_DeduplicatedUnion ==
    jsonPc = "done" =>
        \A key \in DOMAIN collectedData :
            /\ NoDuplicates(collectedData[key])
            /\ collectedData[key] = UniqueInOrder(ProducedFor(key, received), <<>>)

\* What an instruction with this filter and map is to contribute for a
\* matched value: the normalised value without the members of the filter,
\* each element mapped, the rejected ones dropped.
ExpectedContribution(filter, mapFunc, data) ==
    LET raw == CASE data.kind = "array" -> data.items
                 [] data.kind = "object" -> data.keys
                 [] data.kind = "null" -> <<>>
                 [] OTHER -> <<data.value>>
        kept == SelectSeq(raw, LAMBDA d : ~(filter.defined /\ d \in SeqToSet(filter.value)))
        mapped == [i \in 1..Len(kept) |->
                      IF mapFunc.defined THEN RunMap(mapFunc.value, kept[i])
                      ELSE Some(kept[i])]
        accepted == SelectSeq(mapped, LAMBDA m : m.defined)
    IN  [i \in 1..Len(accepted) |-> accepted[i].value]

\* C10: each onReceiveData call contributes the normalised matched value with
\* the members of the filter removed before the map function is applied and
\* the rejected elements dropped; filter ["x"] on ["x","y","x"] gives ["y"].
C10_FilterThenMap ==
    jsonPc = "done" =>
        \A i \in 1..Len(received) :
            LET call == received[i]
            IN  /\ call.readyData = ExpectedContribution(call.filter, call.map, call.data)
                /\ SeqToSet(call.readyData) \subseteq SeqToSet(collectedData[call.key])
                /\ (call.filter = Some(<<"x">>) /\ ~call.map.defined
                    /\ call.data = Arr(<<"x", "y", "x">>))
                   => call.readyData = <<"y">>

\* C10's cases: the filter example, and a filter followed by a map that
\* produces the filtered literal.
C10_Witness ==
    /\ jsonPc = "done"
    /\ \E i \in 1..Len(received) :
           /\ received[i].filter = Some(<<"x">>)
           /\ ~received[i].map.defined
           /\ received[i].data = Arr(<<"x", "y", "x">>)
           /\ collectedData[received[i].key] = <<"y">>


\* ----------------------------------------------------- PackSpider: claims

\* C5: File.create is memoized: an unforced call for a registered path
\* returns the registered File and changes neither the registry nor any File
\* (its connectedFiles, its parents); as long as no call is forced, a path's
\* unforced calls all return the File its first call returned.
C5_Memoized ==
    [][ /\ (CallPending /\ fileStore[PendingPath] # NoFile)
           => /\ files' = files
              /\ fileStore' = fileStore
              /\ returnedBy'[PendingPath] = fileStore[PendingPath]
        /\ \A p \in SpiderPaths :
              (~anyForced' /\ returnedBy[p] # NoFile) => returnedBy'[p] = returnedBy[p]
      ]_vars

\* C5's case: setup([a, b, s]) created a for its first seed, and the call for
\* b has just got that File back from its nested File.create of a.
C5_Witness ==
    /\ ~anyForced
    /\ seeds = <<"BP/b.json", "BP/s.json">>
    /\ Len(stack) = 1
    /\ stack[1].filePath = "BP/b.json"
    /\ stack[1].connectedFiles = <<fileStore["BP/a.json"]>>
    /\ returnedBy["BP/a.json"] = fileStore["BP/a.json"]

\* The Files reachable from the Files of S through connectedFiles, S included.
RECURSIVE Reach(_, _)
Reach(h, S) ==
    LET next == S \cup UNION {SeqToSet(h[x].connectedFiles) : x \in S}
    IN  IF next = S THEN S ELSE Reach(h, next)

\* Whether the files linked from this File link back to a File of its path.
OnPathCycle(h, this) ==
    \E b \in SeqToSet(h[this].connectedFiles) :
        /\ h[b].filePath # h[this].filePath
        /\ \E a \in SeqToSet(h[b].connectedFiles) : h[a].filePath = h[this].filePath

C7_CyclesTolerated ==
    \A i, j \in 1..Len(stack) : stack[i].filePath = stack[j].filePath => i = j

\* C8: when a forced File.create of a registered path has completed, the old
\* File is in the parents of none of its connectedFiles, and the parents of the
\* new File include every parent the old File had when the call was made.
C8_ForcedDetach ==
    lastRebuild.defined =>
        LET r == lastRebuild.value
        IN  /\ \A c \in SeqToSet(files[r.old].connectedFiles) : r.old \notin files[c].parents
            /\ r.parentsAtCall \subseteq files[r.new].parents
            /\ fileStore[files[r.new].filePath] = r.new

\* C8's case: the rebuilt File had connectedFiles and parents.
C8_Witness ==
    /\ lastRebuild.defined
    /\ files[lastRebuild.value.old].connectedFiles # <<>>
    /\ lastRebuild.value.parentsAtCall # {}


\* ------------------------------------- LightningCache: claims, continued

\* Whether json5.parse fails on the present content of the .json file p.
Malformed(p) ==
    tree[p].exists /\ ExtName(p) = ".json" /\ ~Json5Parse(tree[p].content).defined

\* C11: malformed JSON is not fatal: a changed .json file that does not parse
\* gets a record with its present lastModified and no data, nothing is
\* evaluated or thrown, the walk goes on to the files after it and returns
\* every file of the tree; the file is reported changed in that pass and not
\* in the next pass over the unchanged tree.
C11_MalformedJSON ==
    /\ \A p \in CachePaths :
          (cachePc = "walk" /\ lastFile.defined /\ lastFile.value.path = p /\ Malformed(p)
           /\ lastOps # {"visit"})
          => /\ lastFile.value.changed
             /\ Contains(changedFiles, p)
             /\ lastOps = {"parse", "add"}
             /\ store[p].exists
             /\ store[p].lastModified = tree[p].lastModified
             /\ ~store[p].data.defined
    /\ (FullPassDone /\ sinceScan = "same")
          => filePaths = IterateDir(tree, folderIgnoreList)
    /\ (FullPassDone /\ sinceScan = "same" /\ passOver = "same")
          => \A p \in CachePaths : Malformed(p) => ~Contains(changedFiles, p)

\* C11's case: the second pass over an unchanged tree that holds a malformed
\* .json file and a file after it.
C11_Witness ==
    /\ FullPassDone
    /\ sinceScan = "same"
    /\ passOver = "same"
    /\ Malformed("BP/e.json")
    /\ filePaths = <<"BP/e.json", "BP/f.mcfunction">>
    /\ store["BP/e.json"].exists
    /\ ~store["BP/e.json"].data.defined


\* The record of p as the store's users see it: whether there is one, its
\* lastModified and its data.
Stored(s, p) ==
    IF s[p].exists THEN Some([lastModified |-> s[p].lastModified, data |-> s[p].data])
    ELSE Undefined

\* C12: the fast path of start(): with the option noFullLightningCacheRefresh
\* set and a store that has entries, start() returns (allFiles(), []) without
\* a walk, without adding or changing a record and without saveStore; with
\* the option set and an empty store, or without the option, it walks the tree.
C12_FastPath ==
    [][ (cachePc = "idle" /\ now' = now)
        => IF options'.noFullLightningCacheRefresh /\ \E p \in CachePaths : store[p].exists
           THEN /\ cachePc' = "idle"
                /\ lastPass' = "fast"
                /\ filePaths' = AllFiles(store)
                /\ changedFiles' = <<>>
                /\ queue' = <<>>
                /\ lastOps' = {}
                /\ ~saved'
                /\ \A p \in CachePaths : Stored(store', p) = Stored(store, p)
           ELSE /\ cachePc' = "walk"
                /\ queue' = IterateDir(tree, folderIgnoreList')
                /\ filePaths' = <<>> ]_vars

\* C12's case: start() took the fast path over a tree in which a file is
\* newer than its record.
C12_Witness ==
    /\ cachePc = "idle"
    /\ lastPass = "fast"
    /\ options.noFullLightningCacheRefresh
    /\ filePaths # <<>>
    /\ \E p \in CachePaths :
          /\ tree[p].exists /\ store[p].exists
          /\ tree[p].lastModified # store[p].lastModified


\* Whether s is a subsequence of t.
RECURSIVE IsSubsequence(_, _)
IsSubsequence(s, t) ==
    IF s = <<>> THEN TRUE
    ELSE IF t = <<>> THEN FALSE
    ELSE IF Head(s) = Head(t) THEN IsSubsequence(Tail(s), Tail(t))
    ELSE IsSubsequence(s, Tail(t))

\* C13: the file list of a full walk holds, once each, the files that are not
\* below a directory whose relative path is in the ignore set and whose name
\* does not start with '.'; the ignore set holds 'bridge' and 'builds' whether
\* or not the ignore-folders file can be read; the changed files are a
\* subsequence of the file list.
C13_WalkedFiles ==
    /\ (cachePc = "walk" \/ lastPass # "none") => {"bridge", "builds"} \subseteq folderIgnoreList
    /\ IsSubsequence(changedFiles, filePaths)
    /\ (FullPassDone /\ sinceScan = "same")
          => /\ NoDuplicates(filePaths)
             /\ SeqToSet(filePaths) =
                   {p \in CachePaths : /\ tree[p].exists
                                       /\ DirsAbove(p) \cap folderIgnoreList = {}
                                       /\ ~StartsWithDot(p)}

\* C13's case: a walk with the ignore-folders file read, over a tree with a
\* file in an ignored folder, a file in a folder that has the name of an
\* ignored folder below another one, and a file that was not changed.
C13_Witness ==
    /\ FullPassDone
    /\ sinceScan = "same"
    /\ "RP" \in folderIgnoreList
    /\ tree["RP/m.json"].exists
    /\ filePaths = <<"BP/builds/q.json", "BP/e.json">>
    /\ changedFiles = <<"BP/builds/q.json">>


\* C16: every file processFile reports changed has, when processFile returns,
\* a record whose lastModified is the file's present timestamp, whatever
\* branch the file took.
C16_ChangedFileRecorded ==
    \A p \in CachePaths :
        (cachePc = "walk" /\ lastFile = Some([path |-> p, changed |-> TRUE]))
        => /\ store[p].exists
           /\ store[p].lastModified = tree[p].lastModified


\* ------------------------------------------- PackSpider: claims, continued

\* C14: isFeatureFolder holds for a File iff its parents are empty, and
\* getCategoryDirectory(fileType) lists exactly the registered Files of that
\* type that have no parents, each under its own path.
C14_FeatureFolders ==
    /\ \A f \in 1..Len(files) : IsFeatureFolder(files, f) <=> files[f].parents = {}
    /\ categoryDirectory.defined =>
          LET fileType == categoryDirectory.value.fileType
              folders == categoryDirectory.value.folders
              names == [i \in 1..Len(folders) |-> folders[i].name]
          IN  /\ NoDuplicates(names)
              /\ SeqToSet(names) =
                    {p \in SpiderPaths : /\ FileTypeId(p) = fileType
                                         /\ fileStore[p] # NoFile
                                         /\ files[fileStore[p]].parents = {}}
              /\ \A i \in 1..Len(folders) :
                    /\ folders[i].path = <<fileType, folders[i].name>>
                    /\ folders[i].displayName = files[fileStore[folders[i].name]].identifier

\* C14's case: getCategoryDirectory('entity') with two entities registered,
\* one of them linked by the other.
C14_Witness ==
    /\ categoryDirectory.defined
    /\ categoryDirectory.value.fileType = "entity"
    /\ Len(categoryDirectory.value.folders) = 1
    /\ fileStore["BP/a.json"] # NoFile
    /\ fileStore["BP/b.json"] # NoFile
    /\ \E p \in {"BP/a.json", "BP/b.json"} :
          /\ files[fileStore[p]].parents # {}
          /\ files[fileStore[p]].connectedFiles = <<fileStore["BP/s.json"]>>


\* C17: after any setup and updateFile operations, toDirectory() of a
\* registered File lists the File and exactly the Files reachable from it,
\* each once, and no filePath twice.
C17_DirectoryDeduplicated ==
    (directory.defined
     /\ fileStore[files[directory.value.node].filePath] = directory.value.node)
    => /\ directory.value.ok
       /\ SeqToSet(directory.value.deepFiles) = Reach(files, {directory.value.node})
       /\ NoDuplicates(directory.value.deepFiles)
       /\ NoDuplicates(directory.value.dirFiles)


\* The paths an entity file links according to its cache data: the values of
\* 'include' below the pack folder, the files whose 'identifier' is one of its
\* 'ref' values, the shared file.
ExpectedLinks(p) ==
    IF FileTypeId(p) # "entity" THEN <<>>
    ELSE LET data == cacheData[p]
         IN  [i \in 1..Len(data["include"]) |-> "BP/" \o data["include"][i]]
             \o SelectSeq(SpiderPathOrder,
                          LAMBDA q : \E v \in SeqToSet(data["ref"]) :
                                        v \in SeqToSet(cacheData[q]["identifier"]))
             \o <<"BP/s.json">>

\* C18: the connectedFiles of a File that File.create has just built, fresh or
\* forced, are the Files of the paths its includeFiles values, its connect
\* rules and its sharedFiles resolve to, in that order and each once; each of
\* them is the File File.create returned for its path and has the new File
\* among its parents.
C18_ResolvedLinks ==
    lastCreated.defined =>
        LET this == lastCreated.value
            linked == files[this].connectedFiles
        IN  /\ [i \in 1..Len(linked) |-> files[linked[i]].filePath]
                  = UniqueInOrder(ExpectedLinks(files[this].filePath), <<>>)
            /\ \A i \in 1..Len(linked) :
                  /\ this \in files[linked[i]].parents
                  /\ \/ fileStore[files[linked[i]].filePath] = linked[i]
                     \/ lastRebuild.defined /\ lastRebuild.value.old = linked[i]

\* C18's case: File.create built the File of an entity whose connect rule
\* finds another entity, and linked that one and the shared file.
C18_Witness ==
    /\ lastCreated.defined
    /\ files[lastCreated.value].filePath = "BP/a.json"
    /\ cacheData["BP/a.json"]["ref"] = <<"idb">>
    /\ files[lastCreated.value].connectedFiles
          = <<fileStore["BP/b.json"], fileStore["BP/s.json"]>>
    /\ fileStore["BP/b.json"] # NoFile


\* C19: File.create calls without forceUpdate do not race: when no call was
\* forced, the outermost calls that returned for the same path returned the
\* same File, and every File ever built is the one registered for its path,
\* so that every connectedFiles and parents entry is a registered File.
C19_UnforcedCallsAgree ==
    ~everForced =>
        /\ \A t1, t2 \in Tasks :
              (/\ returned[t1].defined /\ returned[t2].defined
               /\ returned[t1].value.filePath = returned[t2].value.filePath)
              => returned[t1].value.file = returned[t2].value.file
        /\ \A f \in 1..Len(files) : fileStore[files[f].filePath] = f


\* ------------------------------------------------------- compiler: claims

\* C15 as stated: loadOutputFolders never throws; whatever the polyfill flag
\* and the com.mojang status are, it returns an InfoPanel.
C15_NeverThrows ==
    panel.defined => ~panel.value.result.thrown

\* C15, amended: loadOutputFolders returns the InfoPanel of the state it
\* finds: notAvailable with the polyfill, else deniedPermission without the
\* folder and with a denied permission, sucess with the folder and no denial,
\* notSetup without the folder and without a denial; with the folder and a
\* denied permission, and no polyfill, it throws 'Invalid com.mojang status'.
C15_StatusPanel ==
    panel.defined =>
        LET polyfill == panel.value.polyfill
            has == panel.value.status.hasComMojang
            denied == panel.value.status.didDenyPermission
            r == panel.value.result
            shows(text, type) ==
                ~r.thrown /\ r.config = [text |-> text, type |-> type, isDismissible |-> FALSE]
        IN  /\ r.thrown <=> (~polyfill /\ has /\ denied)
            /\ r.thrown => r.config = "Invalid com.mojang status"
            /\ polyfill => shows("comMojang.status.notAvailable", "error")
            /\ (~polyfill /\ ~has /\ denied)
                  => shows("comMojang.status.deniedPermission", "warning")
            /\ (~polyfill /\ has /\ ~denied) => shows("comMojang.status.sucess", "success")
            /\ (~polyfill /\ ~has /\ ~denied) => shows("comMojang.status.notSetup", "error")

\* C15's case: loadOutputFolders found the permission denied and no folder.
C15_Witness ==
    /\ panel.defined
    /\ ~panel.value.polyfill
    /\ panel.value.status = [hasComMojang |-> FALSE, didDenyPermission |-> TRUE]
    /\ ~panel.value.result.thrown
    /\ panel.value.result.config.type = "warning"

\* Whether filePath is below an include location, and below one that lists
\* a document path.
UnderIncludeLocation(filePath) ==
    \E i \in 1..Len(include) : StartsWith(filePath, include[i].startPath)
UnderLocationWithPaths(filePath) ==
    \E i \in 1..Len(include) :
        StartsWith(filePath, include[i].startPath) /\ Len(include[i].paths) > 0

\* C20 as stated: require returns the globs of the command files for a file
\* below an include location that lists a document path and for a function
\* file below BP/functions/, and nothing for a file that is neither.
C20_RequireDeclared ==
    pipeline.defined =>
        LET filePath == pipeline.value.filePath
            embeds == UnderLocationWithPaths(filePath) \/ IsMcfunction(filePath)
        IN  /\ embeds => pipeline.value.required = Some(CommandGlobs)
            /\ ~embeds => pipeline.value.required = Undefined

\* C20, amended: require returns the globs of the command files for every
\* file whose commands transform rewrites, for every file below an include
\* location (also one that lists no document path) and for every function
\* file below BP/functions/; for a file below no include location that is no
\* such function file it returns nothing, and transform leaves that file alone.
C20_RequireCoversTransform ==
    pipeline.defined =>
        LET filePath == pipeline.value.filePath
            required == pipeline.value.required
            transform == pipeline.value.transform
        IN  /\ transform.transformed # {} => required = Some(CommandGlobs)
            /\ (UnderIncludeLocation(filePath) \/ IsMcfunction(filePath))
                  => required = Some(CommandGlobs)
            /\ ~(UnderIncludeLocation(filePath) \/ IsMcfunction(filePath))
                  => (required = Undefined /\ transform.branch = "none")

\* C20's case: a file below an include location went through transform, which
\* rewrote the commands at one of its document paths.
C20_Witness ==
    /\ pipeline.defined
    /\ pipeline.value.filePath = <<"BP", "entities", "e.json">>
    /\ pipeline.value.transform.transformed = {"events/run"}
    /\ pipeline.value.required = Some(CommandGlobs)


\* ------------------------------------------------ the registry: claims

\* The Files the registry holds.
Registered == {fileStore[p] : p \in SpiderPaths} \ {NoFile}

\* Whether a File is the one registered for its path.
IsRegistered(f) == fileStore[files[f].filePath] = f

\* C21: after any setup and updateFile operations, every File in the
\* connectedFiles or in the parents of a registered File is itself the File
\* registered for its path: no File replaced by a forced rebuild is still
\* referenced by a registered File.
C21_RegistryConsistent ==
    spiderPc = "idle" =>
        \A x \in Registered :
            \A y \in SeqToSet(files[x].connectedFiles) \cup files[x].parents :
                IsRegistered(y)


\* C22: after any setup and updateFile operations, for registered Files X and
\* Y, Y is in X's connectedFiles iff X is in Y's parents; so a registered File
\* is a feature folder exactly when no registered File links to it.
C22_EdgeSymmetry ==
    spiderPc = "idle" =>
        /\ \A x, y \in Registered :
              Contains(files[x].connectedFiles, y) <=> x \in files[y].parents
        /\ \A y \in Registered :
              IsFeatureFolder(files, y)
              <=> ~\E x \in Registered : Contains(files[x].connectedFiles, y)


\* Whether the call about to end is a forced File.create of a path that had
\* no File when the call was made.
ForcedUnregisteredPending ==
    /\ ConstructPending
    /\ stack[Len(stack)].forceUpdate
    /\ stack[Len(stack)].storedFile = NoFile

\* C23: updateFile(filePath) for a path that has no File in the registry
\* completes without error and registers a new File for it whose parents are
\* empty.
C23_ForcedUnregistered ==
    [][ ForcedUnregisteredPending
        => LET filePath == stack[Len(stack)].filePath
           IN  /\ ~lastError'
               /\ fileStore'[filePath] # NoFile
               /\ fileStore'[filePath] = Len(files')
               /\ files'[fileStore'[filePath]].filePath = filePath
               /\ files'[fileStore'[filePath]].parents = {}
      ]_vars


\* C24: the connectedFiles relation over File objects has no cycle: the
\* connectedFiles of a File are fixed when it is constructed and hold only
\* Files that were constructed before it.
C24_Acyclic ==
    [][ /\ \A f \in 1..Len(files) :
              /\ f <= Len(files')
              /\ files'[f].connectedFiles = files[f].connectedFiles
        /\ \A f \in 1..Len(files') :
              /\ \A c \in SeqToSet(files'[f].connectedFiles) : c < f
              /\ f \notin Reach(files', SeqToSet(files'[f].connectedFiles))
      ]_vars

\* C24's case: a forced rebuild has completed and the files link in a cycle:
\* the File registered for a path links a File of another path that links the
\* replaced File of the first path.
C24_Witness ==
    /\ spiderPc = "idle"
    /\ lastRebuild.defined
    /\ OnPathCycle(files, lastRebuild.value.new)
    /\ IsRegistered(lastRebuild.value.new)
    /\ \E b \in SeqToSet(files[lastRebuild.value.new].connectedFiles) :
          /\ IsRegistered(b)
          /\ Contains(files[b].connectedFiles, lastRebuild.value.old)

====
